---- MODULE Spec2Model ----
(***************************************************************************)
(* Model of backend/app.py: the /convert request handler, its dispatcher   *)
(* and the four conversion paths (single item, merge, batch, archive).     *)
(*                                                                         *)
(* Strings of the program that are built by concatenation (file names,     *)
(* error messages) are sequences of tokens; "." and "_" are tokens of      *)
(* their own, so that os.path.splitext and secure_filename can be computed *)
(* as the libraries compute them.  Byte payloads are records naming the    *)
(* encoder that produced them, its options and the pixels it was given.    *)
(***************************************************************************)
EXTENDS Integers, Sequences, FiniteSets, TLC

VARIABLES files, format_arg, pc, response

vars == <<files, format_arg, pc, response>>

\* Largest number of files attached to one request.
MaxFiles == 3

None == "None"

-----------------------------------------------------------------------------
(* Uploaded items *)

\* Pixel modes an opened image can have.
Modes == {"RGB", "RGBA", "P"}

\* Content of an upload: id identifies the bytes; decodes says whether
\* Image.open (and the mode conversion) succeeds on them, mode is the opened
\* image's mode, encodes whether img.save succeeds on the opened image.
Payload(id, decodes, mode, encodes) ==
    [id |-> id, decodes |-> decodes, mode |-> mode, encodes |-> encodes]

\* The uploads a client can attach: file name as sent, and content.
Uploads ==
    { [filename |-> <<"a", ".", "png">>,           data |-> Payload(1, TRUE, "RGB", TRUE)],
      [filename |-> <<"b", ".", "tar", ".", "gz">>, data |-> Payload(2, TRUE, "RGBA", TRUE)],
      [filename |-> <<".", ".", "/", "c", ".", "gif">>, data |-> Payload(3, TRUE, "P", TRUE)],
      [filename |-> <<"d">>,                        data |-> Payload(4, FALSE, "RGB", FALSE)],
      [filename |-> <<"a", ".", "png">>,           data |-> Payload(5, FALSE, "RGB", FALSE)],
      [filename |-> <<"e", ".", "jpg">>,           data |-> Payload(6, TRUE, "RGB", FALSE)] }

\* Values of the format query argument a client can send (None: absent).
FormatArgs ==
    { None,
      "pdf", "docx", "doc", "txt", "rtf", "odt",
      "png", "jpg", "jpeg", "webp", "bmp", "tiff", "gif", "svg", "ico", "heic",
      "xlsx", "xls", "csv", "ods",
      "pptx", "ppt", "odp",
      "zip",
      "PDF", "Zip", "Png", "DOCX", "GIF",
      "mp4", "" }

\* str.lower() on the format tokens of FormatArgs
lower(s) ==
    CASE s = "PDF"  -> "pdf"
      [] s = "Zip"  -> "zip"
      [] s = "Png"  -> "png"
      [] s = "DOCX" -> "docx"
      [] s = "GIF"  -> "gif"
      [] OTHER      -> s

-----------------------------------------------------------------------------
(* Library functions the handler calls *)

RECURSIVE lstrip(_)
lstrip(s) ==
    IF s # <<>> /\ Head(s) \in {".", "_"} THEN lstrip(Tail(s)) ELSE s

RECURSIVE rstrip(_)
rstrip(s) ==
    IF s # <<>> /\ s[Len(s)] \in {".", "_"}
    THEN rstrip(SubSeq(s, 1, Len(s) - 1))
    ELSE s

\* werkzeug.utils.secure_filename: path separators become "_", then leading
\* and trailing "." and "_" are stripped.
secure_filename(name) ==
    rstrip(lstrip([i \in 1..Len(name) |-> IF name[i] = "/" THEN "_" ELSE name[i]]))

\* Index of the last "." of s, 0 if there is none.
LastDot(s) ==
    IF \E i \in 1..Len(s) : s[i] = "."
    THEN CHOOSE i \in 1..Len(s) :
            s[i] = "." /\ \A j \in (i + 1)..Len(s) : s[j] # "."
    ELSE 0

\* os.path.splitext(p)[0]: p up to its last dot, when a character other than
\* a dot precedes that dot; p itself otherwise.
splitext_root(p) ==
    LET d == LastDot(p)
    IN  IF d > 0 /\ \E j \in 1..(d - 1) : p[j] # "."
        THEN SubSeq(p, 1, d - 1)
        ELSE p

\* Bytes: enc is the container/encoder, pages the pixel data it holds (source
\* id and pixel mode per page), opts the encoder options, text the text of a
\* text payload, entries the members of an archive.
Bytes(enc, pages, opts, text, entries) ==
    [enc |-> enc, pages |-> pages, opts |-> opts, text |-> text, entries |-> entries]

EmptyBytes == Bytes("", <<>>, <<>>, <<>>, <<>>)

\* The bytes of an upload as sent.
RawBytes(data) ==
    Bytes("upload", <<[src |-> data.id, mode |-> data.mode]>>, <<>>, <<>>, <<>>)

\* FileStorage.read() at stream position pos: everything from pos on.
\* pos is 0 (start) or 1 (end of stream).
read(file, pos) == IF pos = 0 THEN RawBytes(file.data) ELSE EmptyBytes

\* The upload content whose bytes a stream holds.
PayloadOf(stream) ==
    (CHOOSE u \in Uploads : u.data.id = stream.pages[1].src).data

\* PIL Image.open on a stream: an image object, or raised (raised # <<>>).
Image_open(stream) ==
    IF stream.enc = "upload" /\ PayloadOf(stream).decodes
    THEN [raised |-> <<>>, src |-> PayloadOf(stream).id,
          mode |-> PayloadOf(stream).mode, encodes |-> PayloadOf(stream).encodes]
    ELSE [raised |-> <<"cannot identify image file">>, src |-> 0, mode |-> "",
          encodes |-> FALSE]

\* img.convert('RGB')
Image_convert(img, mode) == [img EXCEPT !.mode = mode]

\* The guard  if img.mode in ['RGBA', 'P']: img = img.convert('RGB')
NormalizeRGB(img) ==
    IF img.mode \in {"RGBA", "P"} THEN Image_convert(img, "RGB") ELSE img

\* img.save(stream, enc, **opts) of one image: the bytes written, or raised.
Image_save(img, enc, opts) ==
    IF img.encodes
    THEN [raised |-> <<>>,
          bytes  |-> Bytes(enc, <<[src |-> img.src, mode |-> img.mode]>>, opts, <<>>, <<>>)]
    ELSE [raised |-> <<"encoder error">>, bytes |-> EmptyBytes]

-----------------------------------------------------------------------------
(* Return values of the view functions *)

\* flask.send_file(stream, as_attachment=True, download_name=.., mimetype=..)
send_file(body, download_name, mimetype, call) ==
    [kind |-> "send_file", status |-> 200, error |-> <<>>, body |-> body,
     download_name |-> download_name, mimetype |-> mimetype, calls |-> call]

\* return {"error": msg}, 400
error_response(msg, call) ==
    [kind |-> "json", status |-> 400, error |-> msg, body |-> EmptyBytes,
     download_name |-> <<>>, mimetype |-> "application/json", calls |-> call]

\* raise Exception(msg): the exception leaves the function
raise(msg, call) ==
    [kind |-> "raise", status |-> 500, error |-> msg, body |-> EmptyBytes,
     download_name |-> <<>>, mimetype |-> "", calls |-> call]

\* The response before the handler has run.
NoResponse ==
    [kind |-> "none", status |-> 0, error |-> <<>>, body |-> EmptyBytes,
     download_name |-> <<>>, mimetype |-> "", calls |-> <<>>]

-----------------------------------------------------------------------------
(* Single-item converters *)

\* The per-format branch of convert_image_format: the image handed to the
\* encoder, the encoder, its options and the declared mimetype.
image_branch(img, output_format) ==
    CASE output_format \in {"jpg", "jpeg"} ->
            [img |-> NormalizeRGB(img), enc |-> "JPEG",
             opts |-> <<"quality=95", "optimize">>, mimetype |-> "image/jpeg"]
      [] output_format = "png" ->
            [img |-> img, enc |-> "PNG", opts |-> <<"optimize">>,
             mimetype |-> "image/png"]
      [] output_format = "bmp" ->
            [img |-> NormalizeRGB(img), enc |-> "BMP", opts |-> <<>>,
             mimetype |-> "image/bmp"]
      [] output_format = "tiff" ->
            [img |-> img, enc |-> "TIFF", opts |-> <<"compression=lzw">>,
             mimetype |-> "image/tiff"]
      [] output_format = "webp" ->
            [img |-> img, enc |-> "WebP", opts |-> <<"quality=95", "method=6">>,
             mimetype |-> "image/webp"]
      [] output_format = "gif" ->
            [img |-> IF img.mode \notin {"P", "RGB"}
                     THEN Image_convert(img, "RGB") ELSE img,
             enc |-> "GIF", opts |-> <<"optimize">>, mimetype |-> "image/gif"]
      [] output_format = "ico" ->
            [img |-> img, enc |-> "ICO", opts |-> <<"sizes=16,32,48,64">>,
             mimetype |-> "image/x-icon"]

convert_image_format(file_stream, filename, output_format) ==
    LET img == Image_open(file_stream)
        b   == image_branch(img, output_format)
        out == Image_save(b.img, b.enc, b.opts)
        wrap(e) == raise(<<"Image conversion failed: ">> \o e, <<>>)
    IN  IF img.raised # <<>> THEN wrap(img.raised)
        ELSE IF out.raised # <<>> THEN wrap(out.raised)
        ELSE send_file(out.bytes,
                       splitext_root(filename) \o <<".", output_format>>,
                       b.mimetype, <<>>)

\* The pdf branch of convert_document_format (lines 170-177): bytes or raised.
document_pdf_branch(file_stream) ==
    LET img == Image_open(file_stream)
    IN  IF img.raised # <<>>
        THEN [raised |-> img.raised, bytes |-> EmptyBytes]
        ELSE Image_save(NormalizeRGB(img), "PDF", <<"quality=95">>)

\* The docx/doc branch of convert_document_format (lines 189-197).
document_word_branch(file_stream) ==
    LET img == Image_open(file_stream)
    IN  IF img.raised # <<>>
        THEN [raised |-> img.raised, bytes |-> EmptyBytes]
        ELSE Image_save(NormalizeRGB(img), "PDF", <<"quality=95">>)

\* The final (rtf, odt) branch of convert_document_format (lines 226-234).
document_other_branch(file_stream) ==
    LET img == Image_open(file_stream)
    IN  IF img.raised # <<>>
        THEN [raised |-> img.raised, bytes |-> EmptyBytes]
        ELSE Image_save(NormalizeRGB(img), "PDF", <<"quality=95">>)

\* mimetype_map.get(output_format, 'application/octet-stream') of line 248
document_other_mimetype(output_format) ==
    CASE output_format = "rtf" -> "application/rtf"
      [] output_format = "odt" -> "application/vnd.oasis.opendocument.text"
      [] OTHER                 -> "application/octet-stream"

convert_document_format(file_stream, filename, output_format) ==
    LET name == splitext_root(filename)
        wrap(e) == raise(<<"Document conversion failed: ">> \o e, <<>>)
    IN  IF output_format = "pdf"
        THEN LET out == document_pdf_branch(file_stream)
             IN  IF out.raised # <<>> THEN wrap(out.raised)
                 ELSE send_file(out.bytes, name \o <<".", "pdf">>,
                                "application/pdf", <<>>)
        ELSE IF output_format \in {"docx", "doc"}
        THEN LET out == document_word_branch(file_stream)
             IN  IF out.raised # <<>> THEN wrap(out.raised)
                 ELSE send_file(
                        out.bytes, name \o <<".", output_format>>,
                        IF output_format = "docx"
                        THEN "application/vnd.openxmlformats-officedocument.wordprocessingml.document"
                        ELSE "application/msword",
                        <<>>)
        ELSE IF output_format = "txt"
        THEN send_file(
               Bytes("utf-8", <<>>, <<>>,
                     <<"Converted from: ">> \o filename
                        \o <<"\nConversion date: ">> \o name \o <<"\n">>,
                     <<>>),
               name \o <<".", "txt">>, "text/plain", <<>>)
        ELSE LET out == document_other_branch(file_stream)
             IN  IF out.raised # <<>> THEN wrap(out.raised)
                 ELSE send_file(out.bytes, name \o <<".", output_format>>,
                                document_other_mimetype(output_format), <<>>)

spreadsheet_mimetype(output_format) ==
    CASE output_format = "csv"  -> "text/csv"
      [] output_format = "xlsx" ->
            "application/vnd.openxmlformats-officedocument.spreadsheetml.sheet"
      [] output_format = "xls"  -> "application/vnd.ms-excel"
      [] output_format = "ods"  -> "application/vnd.oasis.opendocument.spreadsheet"
      [] OTHER                  -> "application/octet-stream"

convert_spreadsheet_format(file_stream, filename, output_format) ==
    LET name == splitext_root(filename)
    IN  send_file(
          Bytes("utf-8", <<>>, <<>>,
                <<"Original File,Conversion Date\n">> \o filename \o <<",">>
                   \o name \o <<"\n">>,
                <<>>),
          name \o <<".", output_format>>, spreadsheet_mimetype(output_format), <<>>)

presentation_mimetype(output_format) ==
    CASE output_format = "pptx" ->
            "application/vnd.openxmlformats-officedocument.presentationml.presentation"
      [] output_format = "ppt"  -> "application/vnd.ms-powerpoint"
      [] output_format = "odp"  -> "application/vnd.oasis.opendocument.presentation"
      [] OTHER                  -> "application/octet-stream"

\* A slip: the presentation path without the RGB guard.
convert_presentation_format_no_rgb(file_stream, filename, output_format) ==
    LET img == Image_open(file_stream)
        out == Image_save(img, "PDF", <<"quality=95">>)
        wrap(e) == raise(<<"Presentation conversion failed: ">> \o e, <<>>)
    IN  IF img.raised # <<>> THEN wrap(img.raised)
        ELSE IF out.raised # <<>> THEN wrap(out.raised)
        ELSE send_file(out.bytes,
                       splitext_root(filename) \o <<".", output_format>>,
                       presentation_mimetype(output_format), <<>>)

convert_presentation_format(file_stream, filename, output_format) ==
    LET img == Image_open(file_stream)
        out == Image_save(NormalizeRGB(img), "PDF", <<"quality=95">>)
        wrap(e) == raise(<<"Presentation conversion failed: ">> \o e, <<>>)
    IN  IF img.raised # <<>> THEN wrap(img.raised)
        ELSE IF out.raised # <<>> THEN wrap(out.raised)
        ELSE send_file(out.bytes,
                       splitext_root(filename) \o <<".", output_format>>,
                       presentation_mimetype(output_format), <<>>)

\* A slip: the PNG bytes named after the requested format.
convert_to_svg_named_svg(file_stream, filename) ==
    LET img == Image_open(file_stream)
        out == Image_save(img, "PNG", <<"optimize">>)
        wrap(e) == raise(<<"SVG conversion failed: ">> \o e, <<>>)
    IN  IF img.raised # <<>> THEN wrap(img.raised)
        ELSE IF out.raised # <<>> THEN wrap(out.raised)
        ELSE send_file(out.bytes, splitext_root(filename) \o <<".", "svg">>,
                       "image/png", <<>>)

convert_to_svg(file_stream, filename) ==
    LET img == Image_open(file_stream)
        out == Image_save(img, "PNG", <<"optimize">>)
        wrap(e) == raise(<<"SVG conversion failed: ">> \o e, <<>>)
    IN  IF img.raised # <<>> THEN wrap(img.raised)
        ELSE IF out.raised # <<>> THEN wrap(out.raised)
        ELSE send_file(out.bytes, splitext_root(filename) \o <<".", "png">>,
                       "image/png", <<>>)

convert_to_heic(file_stream, filename) ==
    LET img == Image_open(file_stream)
        out == Image_save(NormalizeRGB(img), "JPEG", <<"quality=95", "optimize">>)
        wrap(e) == raise(<<"HEIC conversion failed: ">> \o e, <<>>)
    IN  IF img.raised # <<>> THEN wrap(img.raised)
        ELSE IF out.raised # <<>> THEN wrap(out.raised)
        ELSE send_file(out.bytes, splitext_root(filename) \o <<".", "jpg">>,
                       "image/jpeg", <<>>)

\* A slip in the image list of the chain: 'ico' left out.
single_converter_no_ico(output_format) ==
    IF output_format \in {"png", "jpg", "jpeg", "bmp", "tiff", "webp", "gif"}
    THEN "convert_image_format"
    ELSE IF output_format \in {"pdf", "docx", "doc", "txt", "rtf", "odt"}
    THEN "convert_document_format"
    ELSE IF output_format \in {"xlsx", "xls", "csv", "ods"}
    THEN "convert_spreadsheet_format"
    ELSE IF output_format \in {"pptx", "ppt", "odp"}
    THEN "convert_presentation_format"
    ELSE IF output_format = "svg" THEN "convert_to_svg"
    ELSE IF output_format = "heic" THEN "convert_to_heic"
    ELSE "none"

\* The conditions of the if/elif chain of convert_single_file: the converter
\* the format token selects, "none" for the final else.
single_converter(output_format) ==
    IF output_format \in {"png", "jpg", "jpeg", "bmp", "tiff", "webp", "gif", "ico"}
    THEN "convert_image_format"
    ELSE IF output_format \in {"pdf", "docx", "doc", "txt", "rtf", "odt"}
    THEN "convert_document_format"
    ELSE IF output_format \in {"xlsx", "xls", "csv", "ods"}
    THEN "convert_spreadsheet_format"
    ELSE IF output_format \in {"pptx", "ppt", "odp"}
    THEN "convert_presentation_format"
    ELSE IF output_format = "svg" THEN "convert_to_svg"
    ELSE IF output_format = "heic" THEN "convert_to_heic"
    ELSE "none"

\* convert_single_file: the family converter is chosen by the format token;
\* whatever a converter raises is turned into an error response.
convert_single_file(file, output_format) ==
    LET filename    == secure_filename(file.filename)
        file_stream == read(file, 0)
        conv        == single_converter(output_format)
        r == CASE conv = "convert_image_format" ->
                    convert_image_format(file_stream, filename, output_format)
               [] conv = "convert_document_format" ->
                    convert_document_format(file_stream, filename, output_format)
               [] conv = "convert_spreadsheet_format" ->
                    convert_spreadsheet_format(file_stream, filename, output_format)
               [] conv = "convert_presentation_format" ->
                    convert_presentation_format(file_stream, filename, output_format)
               [] conv = "convert_to_svg"  -> convert_to_svg(file_stream, filename)
               [] conv = "convert_to_heic" -> convert_to_heic(file_stream, filename)
               [] OTHER ->
                    error_response(<<"Unsupported format: ", output_format>>, <<>>)
        calls == IF conv = "none" THEN <<"convert_single_file">>
                 ELSE <<"convert_single_file", conv>>
    IN  IF r.kind = "raise"
        THEN error_response(<<"Conversion failed: ">> \o r.error, calls)
        ELSE [r EXCEPT !.calls = calls]

-----------------------------------------------------------------------------
(* Batch Assembler *)

\* The if/elif chain of convert_multiple_to_format (lines 387-406): what is
\* written to output_stream (nothing when no branch matches), or raised.
batch_branch(img, output_format) ==
    CASE output_format \in {"jpg", "jpeg"} ->
            Image_save(NormalizeRGB(img), "JPEG", <<"quality=95">>)
      [] output_format = "png"  -> Image_save(img, "PNG", <<>>)
      [] output_format = "bmp"  -> Image_save(NormalizeRGB(img), "BMP", <<>>)
      [] output_format = "tiff" -> Image_save(img, "TIFF", <<>>)
      [] output_format = "webp" -> Image_save(img, "WebP", <<>>)
      [] output_format = "pdf"  -> Image_save(NormalizeRGB(img), "PDF", <<>>)
      [] OTHER -> [raised |-> <<>>, bytes |-> EmptyBytes]

\* One iteration of the loop of convert_multiple_to_format: the entries it
\* adds to the archive (none when the try block raised).
batch_item(file, output_format) ==
    LET filename == secure_filename(file.filename)
        img      == Image_open(read(file, 0))
        out      == batch_branch(img, output_format)
    IN  IF img.raised # <<>> THEN <<>>
        ELSE IF out.raised # <<>> THEN <<>>
        ELSE << [name |-> splitext_root(filename) \o <<".", output_format>>,
                 data |-> out.bytes] >>

RECURSIVE batch_entries(_, _)
batch_entries(fs, output_format) ==
    IF fs = <<>> THEN <<>>
    ELSE batch_item(Head(fs), output_format) \o batch_entries(Tail(fs), output_format)

\* A slip: the loop body without its try/except, so that the first item that
\* fails ends the batch with that exception.
convert_multiple_to_format_no_try(fs, output_format) ==
    IF \E i \in 1..Len(fs) : batch_item(fs[i], output_format) = <<>>
    THEN raise(<<"cannot identify image file">>, <<"convert_multiple_to_format">>)
    ELSE send_file(Bytes("ZIP", <<>>, <<"ZIP_DEFLATED">>, <<>>,
                         batch_entries(fs, output_format)),
                   <<"converted_to_", output_format, ".", "zip">>,
                   "application/zip", <<"convert_multiple_to_format">>)

convert_multiple_to_format(fs, output_format) ==
    send_file(Bytes("ZIP", <<>>, <<"ZIP_DEFLATED">>, <<>>, batch_entries(fs, output_format)),
              <<"converted_to_", output_format, ".", "zip">>,
              "application/zip", <<"convert_multiple_to_format">>)

-----------------------------------------------------------------------------
(* Archive Repackager *)

\* A slip: the except branch without file.seek(0); the stream was read to its
\* end before the try block.
zip_fallback_no_seek(file, filename) ==
    << [name |-> filename, data |-> read(file, 1)] >>

\* The except branch of convert_to_zip: file.seek(0), then the upload's bytes
\* are written under its (sanitized) file name.
zip_fallback(file, filename) ==
    << [name |-> filename, data |-> read(file, 0)] >>

\* One iteration of the loop of convert_to_zip.
zip_item(file) ==
    LET filename == secure_filename(file.filename)
        img      == Image_open(read(file, 0))
        out      == Image_save(NormalizeRGB(img), "PNG", <<>>)
    IN  IF img.raised # <<>> THEN zip_fallback(file, filename)
        ELSE IF out.raised # <<>> THEN zip_fallback(file, filename)
        ELSE << [name |-> splitext_root(filename) \o <<"_", "converted", ".", "png">>,
                 data |-> out.bytes] >>

RECURSIVE zip_entries(_)
zip_entries(fs) ==
    IF fs = <<>> THEN <<>> ELSE zip_item(Head(fs)) \o zip_entries(Tail(fs))

convert_to_zip(fs) ==
    send_file(Bytes("ZIP", <<>>, <<"ZIP_DEFLATED">>, <<>>, zip_entries(fs)),
              <<"converted_files", ".", "zip">>,
              "application/zip", <<"convert_to_zip">>)

-----------------------------------------------------------------------------
(* Merge Assembler *)

\* One iteration of the first loop of merge_to_single_file: the images it
\* appends (none when Image.open or the conversion raised).
merge_item(file) ==
    LET img == Image_open(read(file, 0))
    IN  IF img.raised # <<>> THEN <<>> ELSE <<NormalizeRGB(img)>>

RECURSIVE merge_images(_)
merge_images(fs) ==
    IF fs = <<>> THEN <<>> ELSE merge_item(Head(fs)) \o merge_images(Tail(fs))

\* A slip: append_images left out, so only images[0] is written.
save_pdf_first_only(images) ==
    IF ~images[1].encodes
    THEN [raised |-> <<"encoder error">>, bytes |-> EmptyBytes]
    ELSE [raised |-> <<>>,
          bytes  |-> Bytes("PDF", <<[src |-> images[1].src, mode |-> images[1].mode]>>,
                           <<>>, <<>>, <<>>)]

\* images[0].save(stream, 'PDF') for one image,
\* images[0].save(stream, 'PDF', save_all=True, append_images=images[1:])
\* for more: one page per image, first image first; or raised.
save_pdf(images) ==
    IF \E i \in 1..Len(images) : ~images[i].encodes
    THEN [raised |-> <<"encoder error">>, bytes |-> EmptyBytes]
    ELSE [raised |-> <<>>,
          bytes  |-> Bytes("PDF",
                           [i \in 1..Len(images) |->
                               [src |-> images[i].src, mode |-> images[i].mode]],
                           IF Len(images) = 1 THEN <<>> ELSE <<"save_all">>,
                           <<>>, <<>>)]

\* A slip: the name chosen by the number of images that opened, not by the
\* number of files.
merge_filename_by_decoded(fs, output_format) ==
    IF Len(merge_images(fs)) = 1
    THEN splitext_root(secure_filename(fs[1].filename)) \o <<".", output_format>>
    ELSE <<"merged_document", ".", output_format>>

\* The output name of merge_to_single_file (lines 514-519).
merge_filename(fs, output_format) ==
    IF Len(fs) = 1
    THEN splitext_root(secure_filename(fs[1].filename)) \o <<".", output_format>>
    ELSE <<"merged_document", ".", output_format>>

\* A slip: the  if not images  check left out; images[0] then raises.
merge_to_single_file_no_check(fs, output_format) ==
    LET images == merge_images(fs)
        call   == <<"merge_to_single_file">>
        out    == save_pdf(images)
    IN  IF images = <<>>
        THEN raise(<<"list index out of range">>, call)
        ELSE IF output_format \notin {"pdf", "docx"}
        THEN raise(<<"local variable 'mimetype' referenced before assignment">>, call)
        ELSE IF out.raised # <<>> THEN raise(out.raised, call)
        ELSE send_file(out.bytes, merge_filename(fs, output_format),
                       IF output_format = "pdf" THEN "application/pdf"
                       ELSE "application/vnd.openxmlformats-officedocument.wordprocessingml.document",
                       call)

merge_to_single_file(fs, output_format) ==
    LET images == merge_images(fs)
        call   == <<"merge_to_single_file">>
        out    == save_pdf(images)
    IN  IF images = <<>>
        THEN error_response(<<"No valid images found to convert">>, call)
        ELSE IF output_format \notin {"pdf", "docx"}
        THEN raise(<<"local variable 'mimetype' referenced before assignment">>, call)
        ELSE IF out.raised # <<>> THEN raise(out.raised, call)
        ELSE send_file(out.bytes, merge_filename(fs, output_format),
                       IF output_format = "pdf" THEN "application/pdf"
                       ELSE "application/vnd.openxmlformats-officedocument.wordprocessingml.document",
                       call)

-----------------------------------------------------------------------------
(* Dispatcher *)

\* A slip: the single-file test placed before the zip test.
dispatch_single_first(fs, output_format) ==
    IF Len(fs) = 1 THEN convert_single_file(fs[1], output_format)
    ELSE IF output_format = "zip" THEN convert_to_zip(fs)
    ELSE IF output_format \in {"pdf", "docx"} THEN merge_to_single_file(fs, output_format)
    ELSE convert_multiple_to_format(fs, output_format)

\* The if/elif chain of convert (lines 54-64): the path's return value.
dispatch(fs, output_format) ==
    IF output_format = "zip" THEN convert_to_zip(fs)
    ELSE IF Len(fs) = 1 THEN convert_single_file(fs[1], output_format)
    ELSE IF output_format \in {"pdf", "docx"} THEN merge_to_single_file(fs, output_format)
    ELSE convert_multiple_to_format(fs, output_format)

\* request.args.get('format', 'pdf').lower()
get_output_format(arg) == lower(IF arg = None THEN "pdf" ELSE arg)

\* A slip: convert without its try/except.
convert_no_except(fs, arg) ==
    LET output_format == get_output_format(arg)
    IN  IF fs = <<>>
        THEN error_response(<<"No files provided">>, <<>>)
        ELSE dispatch(fs, output_format)

\* convert(): the response to a request with these files and format argument.
convert(fs, arg) ==
    LET output_format == get_output_format(arg)
        r == dispatch(fs, output_format)
    IN  IF fs = <<>>
        THEN error_response(<<"No files provided">>, <<>>)
        ELSE IF r.kind = "raise"
        THEN error_response(<<"Conversion failed: ">> \o r.error, r.calls)
        ELSE r

-----------------------------------------------------------------------------
(* The service: a client builds a request, the handler answers it. *)

Init ==
    /\ files = <<>>
    /\ format_arg = None
    /\ pc = "building"
    /\ response = NoResponse

\* The client adds a file to the multipart field "file".
AttachFile(u) ==
    /\ pc = "building"
    /\ Len(files) < MaxFiles
    /\ files' = Append(files, u)
    /\ UNCHANGED <<format_arg, pc, response>>

\* The client sets the format query argument.
SetFormat(f) ==
    /\ pc = "building"
    /\ format_arg = None
    /\ f # None
    /\ format_arg' = f
    /\ UNCHANGED <<files, pc, response>>

\* POST /convert: the handler runs start to finish.
Convert ==
    /\ pc = "building"
    /\ response' = convert(files, format_arg)
    /\ pc' = "responded"
    /\ UNCHANGED <<files, format_arg>>

\* The response is sent; the request's data is released and the service is
\* ready for the next request.
NextRequest ==
    /\ pc = "responded"
    /\ files' = <<>>
    /\ format_arg' = None
    /\ response' = NoResponse
    /\ pc' = "building"

Next ==
    \/ \E u \in Uploads : AttachFile(u)
    \/ \E f \in FormatArgs : SetFormat(f)
    \/ Convert
    \/ NextRequest

Spec == Init /\ [][Next]_vars

\* merge_to_single_file called on its own with the files and format of the
\* request, whatever their number: the function as a caller other than the
\* Dispatcher would use it.
MergeDirect ==
    /\ pc = "building"
    /\ response' = merge_to_single_file(files, get_output_format(format_arg))
    /\ pc' = "merged"
    /\ UNCHANGED <<files, format_arg>>

\* The result of the direct call is dropped and its data released.
ReleaseMerge ==
    /\ pc = "merged"
    /\ files' = <<>>
    /\ format_arg' = None
    /\ response' = NoResponse
    /\ pc' = "building"

MergeNext ==
    \/ Next
    \/ MergeDirect
    \/ ReleaseMerge

\* The service together with direct calls of merge_to_single_file.
MergeSpec == Init /\ [][MergeNext]_vars

-----------------------------------------------------------------------------
(* Properties *)

\* The handler has answered the request held in files and format_arg.
Responded == pc = "responded"

\* The target format of the request: the argument, pdf when absent, lower-cased.
TargetFormat == get_output_format(format_arg)

Paths ==
    {"convert_to_zip", "convert_single_file", "merge_to_single_file",
     "convert_multiple_to_format"}

\* The paths entered while the request was handled, in call order.
PathsRun == SelectSeq(response.calls, LAMBDA c : c \in Paths)

\* The path the Dispatcher's rules give for n items and target format fmt.
ExpectedPath(n, fmt) ==
    CASE n = 0                                   -> "none"
      [] n >= 1 /\ fmt = "zip"                   -> "convert_to_zip"
      [] n = 1 /\ fmt # "zip"                    -> "convert_single_file"
      [] n > 1 /\ fmt \in {"pdf", "docx"}        -> "merge_to_single_file"
      [] n > 1 /\ fmt \notin {"zip", "pdf", "docx"} -> "convert_multiple_to_format"

\* C1: the path that runs is determined by the item count and the lower-cased
\* target format alone, in the priority order empty / zip / one item /
\* pdf-or-docx / batch; an empty request gets the 'No files provided' error
\* and runs no path, every other request runs exactly one path.
C1_DispatchByCountAndFormat ==
    Responded =>
        LET want == ExpectedPath(Len(files), TargetFormat)
        IN  IF want = "none"
            THEN /\ PathsRun = <<>>
                 /\ response.kind = "json"
                 /\ response.status = 400
                 /\ response.error = <<"No files provided">>
            ELSE PathsRun = <<want>>

\* C1 witness: one file with format zip (in any case) went to the Archive
\* Repackager, not to the Single-Item Converter.
C1_Witness ==
    /\ Responded
    /\ Len(files) = 1
    /\ format_arg = "Zip"
    /\ PathsRun = <<"convert_to_zip">>

\* An item the Archive Repackager converts: it opens as an image and encodes.
Converts(file) == file.data.decodes /\ file.data.encodes

\* The base names of the uploads' sanitized file names.
Basename(file) ==
    CASE file.filename = <<"a", ".", "png">>                -> <<"a">>
      [] file.filename = <<"b", ".", "tar", ".", "gz">>     -> <<"b", ".", "tar">>
      [] file.filename = <<".", ".", "/", "c", ".", "gif">> -> <<"c">>
      [] file.filename = <<"d">>                            -> <<"d">>
      [] file.filename = <<"e", ".", "jpg">>                -> <<"e">>

\* The uploads' file names after sanitation.
SafeName(file) ==
    IF file.filename = <<".", ".", "/", "c", ".", "gif">>
    THEN <<"c", ".", "gif">>
    ELSE file.filename

\* C2: with format zip the archive has one entry per input item, in input
\* order: '<basename>_converted.png' holding the item's PNG re-encoding when
\* the item converted, the item's own file name holding its unchanged bytes
\* when it did not; so the entry count equals the item count.
C2_ArchiveOneEntryPerItem ==
    (Responded /\ PathsRun = <<"convert_to_zip">>) =>
        LET e == response.body.entries
        IN  /\ response.kind = "send_file"
            /\ Len(e) = Len(files)
            /\ \A i \in 1..Len(files) :
                  IF Converts(files[i])
                  THEN /\ e[i].name = Basename(files[i]) \o <<"_", "converted", ".", "png">>
                       /\ e[i].data.enc = "PNG"
                       /\ e[i].data.pages = <<[src |-> files[i].data.id, mode |-> "RGB"]>>
                  ELSE /\ e[i].name = SafeName(files[i])
                       /\ e[i].data = RawBytes(files[i].data)

\* C2 witness: an archive of three items of which one converted and two fell
\* back to their original bytes (one failing to decode, one to encode).
C2_Witness ==
    /\ Responded
    /\ PathsRun = <<"convert_to_zip">>
    /\ Len(files) = 3
    /\ \E i, j, k \in 1..3 :
          /\ Converts(files[i])
          /\ ~files[j].data.decodes
          /\ files[k].data.decodes /\ ~files[k].data.encodes
          /\ response.body.entries[k].data = RawBytes(files[k].data)

\* The formats the Batch Assembler has an encoder for.
BatchEncodable == {"jpg", "jpeg", "png", "bmp", "tiff", "webp", "pdf"}

\* C3: in a batch archive the entries are, in input order, exactly the items
\* that were converted, each named '<basename>.<format>'; there are at most
\* as many entries as items, and an item that failed to decode or was not
\* encoded has no entry, so no entry is empty.
C3_BatchEntriesAreConvertedItems ==
    (Responded /\ PathsRun = <<"convert_multiple_to_format">>) =>
        LET e  == response.body.entries
            ok == SelectSeq(files,
                            LAMBDA f : Converts(f) /\ TargetFormat \in BatchEncodable)
        IN  /\ Len(e) <= Len(files)
            /\ Len(e) = Len(ok)
            /\ \A i \in 1..Len(e) :
                  /\ e[i].name = Basename(ok[i]) \o <<".", TargetFormat>>
                  /\ e[i].data # EmptyBytes
                  /\ e[i].data.pages = <<[src |-> ok[i].data.id,
                                          mode |-> e[i].data.pages[1].mode]>>

\* The files of the request that open as images, in upload order.
Decodable == SelectSeq(files, LAMBDA f : f.data.decodes)

\* The request ran the Merge Assembler and got a document back.
Merged ==
    /\ Responded
    /\ PathsRun = <<"merge_to_single_file">>
    /\ response.kind = "send_file"

\* C4: the pages of a merged document are the items that decode, in upload
\* order, one page each: page 1 is the first decodable item and items that do
\* not decode are left out without reordering the rest.
C4_MergePagesAreDecodableInOrder ==
    Merged =>
        /\ Len(response.body.pages) = Len(Decodable)
        /\ \A i \in 1..Len(Decodable) :
              response.body.pages[i].src = Decodable[i].data.id

\* C4 witness: a merged document of two pages from three items whose middle
\* item does not decode.
C4_Witness ==
    /\ Merged
    /\ Len(files) = 3
    /\ files[1].data.decodes /\ ~files[2].data.decodes /\ files[3].data.decodes
    /\ files[1] # files[3]
    /\ Len(response.body.pages) = 2

\* C5: a merge none of whose items decodes answers with the 'No valid images'
\* error (400) and no document; a merge returns a document only when at least
\* one item decoded.
C5_MergeNoValidImages ==
    (Responded /\ PathsRun = <<"merge_to_single_file">>) =>
        /\ Decodable = <<>> =>
              /\ response.kind = "json"
              /\ response.status = 400
              /\ response.error = <<"No valid images found to convert">>
              /\ response.body = EmptyBytes
        /\ response.kind = "send_file" => Decodable # <<>>

\* C5 witness: a merge of items none of which decodes was answered with the
\* error.
C5_Witness ==
    /\ Responded
    /\ PathsRun = <<"merge_to_single_file">>
    /\ Len(files) >= 2
    /\ Decodable = <<>>
    /\ response.kind = "json"

\* C6: a batch always ends in a success response carrying
\* 'converted_to_<format>.zip', whatever items failed (also when all did and
\* the archive is empty), and every item that decodes and encodes has its
\* entry whatever happened to the items before it.
C6_BatchFailureIsolation ==
    (Responded /\ PathsRun = <<"convert_multiple_to_format">>) =>
        /\ response.kind = "send_file"
        /\ response.status = 200
        /\ response.error = <<>>
        /\ response.download_name = <<"converted_to_", TargetFormat, ".", "zip">>
        /\ response.body.enc = "ZIP"
        /\ \A i \in 1..Len(files) :
              Converts(files[i]) =>
                 \E k \in 1..Len(response.body.entries) :
                    response.body.entries[k].name
                       = Basename(files[i]) \o <<".", TargetFormat>>

\* C6 witness: a batch all of whose items failed was answered with a success
\* response carrying an empty archive.
C6_Witness ==
    /\ Responded
    /\ PathsRun = <<"convert_multiple_to_format">>
    /\ response.kind = "send_file"
    /\ Len(files) >= 2
    /\ \A i \in 1..Len(files) : ~Converts(files[i])
    /\ response.body.entries = <<>>

\* The families of the Format Classifier.
Family(fmt) ==
    CASE fmt \in {"png", "jpg", "jpeg", "webp", "bmp", "tiff", "gif", "ico"} -> "rasterImage"
      [] fmt \in {"pdf", "docx", "doc", "txt", "rtf", "odt"} -> "document"
      [] fmt \in {"xlsx", "xls", "csv", "ods"} -> "spreadsheet"
      [] fmt \in {"pptx", "ppt", "odp"} -> "presentation"
      [] fmt = "svg" -> "svg"
      [] fmt = "heic" -> "heic"
      [] OTHER -> "unsupported"

\* The converter of each family.
FamilyConverter(family) ==
    CASE family = "rasterImage"  -> "convert_image_format"
      [] family = "document"     -> "convert_document_format"
      [] family = "spreadsheet"  -> "convert_spreadsheet_format"
      [] family = "presentation" -> "convert_presentation_format"
      [] family = "svg"          -> "convert_to_svg"
      [] family = "heic"         -> "convert_to_heic"

\* The request ran the Single-Item Converter.
Single == Responded /\ PathsRun = <<"convert_single_file">>

\* C7: on the Single-Item path a format in no family gets the 'Unsupported
\* format' error (400) and no output, and no converter is called; a format in
\* a family is handed to that family's converter and never gets that error.
C7_UnsupportedFormat ==
    Single =>
        IF Family(TargetFormat) = "unsupported"
        THEN /\ response.kind = "json"
             /\ response.status = 400
             /\ response.error = <<"Unsupported format: ", TargetFormat>>
             /\ response.body = EmptyBytes
             /\ response.calls = <<"convert_single_file">>
        ELSE /\ response.calls
                  = <<"convert_single_file", FamilyConverter(Family(TargetFormat))>>
             /\ response.error # <<>> => response.error[1] # "Unsupported format: "

\* C7 witness: a single item with a format of no family was refused.
C7_Witness ==
    /\ Single
    /\ TargetFormat = "mp4"
    /\ response.error = <<"Unsupported format: ", "mp4">>

\* The MIME type of each raster format.
CanonicalMime(fmt) ==
    CASE fmt = "png"  -> "image/png"
      [] fmt = "jpg"  -> "image/jpeg"
      [] fmt = "jpeg" -> "image/jpeg"
      [] fmt = "webp" -> "image/webp"
      [] fmt = "bmp"  -> "image/bmp"
      [] fmt = "tiff" -> "image/tiff"
      [] fmt = "gif"  -> "image/gif"
      [] fmt = "ico"  -> "image/x-icon"

\* The extension of a single-item output.
EffectiveExtension(fmt) ==
    CASE fmt = "svg"  -> "png"
      [] fmt = "heic" -> "jpg"
      [] OTHER        -> fmt

\* C8: a successful single-item response is named '<basename>.<ext>', ext
\* being png for svg, jpg for heic and the requested format otherwise; for a
\* raster format the content-type is that format's MIME type, for svg it is
\* image/png and for heic image/jpeg.
C8_SingleItemNaming ==
    (Single /\ response.kind = "send_file") =>
        /\ response.download_name
              = Basename(files[1]) \o <<".", EffectiveExtension(TargetFormat)>>
        /\ Family(TargetFormat) = "rasterImage" =>
              response.mimetype = CanonicalMime(TargetFormat)
        /\ TargetFormat = "svg"  => response.mimetype = "image/png"
        /\ TargetFormat = "heic" => response.mimetype = "image/jpeg"

\* C8 witness: an svg request for a file with a two-dot name was answered with
\* PNG bytes under a .png name.
C8_Witness ==
    /\ Single
    /\ response.kind = "send_file"
    /\ TargetFormat = "svg"
    /\ response.download_name = <<"b", ".", "tar", ".", "png">>

\* C9: every request is answered with exactly one of: a single file (bytes,
\* name, content-type), an archive with its name, or a JSON error with status
\* 400; nothing raised inside a path leaves the handler, and a response is
\* never a result and an error at once.
C9_OneResponseShape ==
    Responded =>
        \/ /\ response.kind = "send_file"
           /\ response.status = 200
           /\ response.error = <<>>
           /\ response.download_name # <<>>
           /\ response.mimetype # ""
           /\ (response.body.enc = "ZIP") = (response.mimetype = "application/zip")
           /\ response.body.enc # ""
        \/ /\ response.kind = "json"
           /\ response.status = 400
           /\ response.error # <<>>
           /\ response.body = EmptyBytes
           /\ response.download_name = <<>>

\* C9 witness: an encoder failure inside the Merge Assembler, outside its own
\* try block, was answered with a 400 error.
C9_Witness ==
    /\ Responded
    /\ PathsRun = <<"merge_to_single_file">>
    /\ Decodable # <<>>
    /\ response.kind = "json"
    /\ response.status = 400
    /\ response.error[1] = "Conversion failed: "

\* The targets that relabel the PDF output.
PdfLabels == {"docx", "doc", "rtf", "odt", "pptx", "ppt", "odp"}

\* C10: on the Single-Item path each of docx, doc, rtf, odt, pptx, ppt, odp
\* yields for an item the bytes the pdf target yields for it (and fails when
\* the pdf target fails); name extension and content-type alone differ.
C10_PdfRelabelled ==
    (Single /\ TargetFormat \in PdfLabels) =>
        LET pdf == convert(files, "pdf")
        IN  /\ response.kind = pdf.kind
            /\ response.body = pdf.body
            /\ response.kind = "send_file" =>
                  /\ pdf.download_name = Basename(files[1]) \o <<".", "pdf">>
                  /\ response.download_name = Basename(files[1]) \o <<".", TargetFormat>>
                  /\ response.mimetype # pdf.mimetype

\* C10 witness: a presentation target for an image with an alpha channel gave
\* a PDF of the flattened image.
C10_Witness ==
    /\ Single
    /\ TargetFormat = "odp"
    /\ files[1].data.mode = "RGBA"
    /\ response.kind = "send_file"
    /\ response.body.enc = "PDF"
    /\ response.body.pages[1].mode = "RGB"

\* merge_to_single_file has returned a document, called by the Dispatcher
\* (pc = "responded") or on its own (pc = "merged").
MergeReturned ==
    /\ pc \in {"responded", "merged"}
    /\ PathsRun = <<"merge_to_single_file">>
    /\ response.kind = "send_file"

\* C11: the merged document is named '<basename>.<format>' after the sole
\* file when exactly one file was supplied to the merge and
\* 'merged_document.<format>' otherwise, whatever number of files decoded; so
\* every merge the Dispatcher starts is named 'merged_document.<format>'.
C11_MergeFilename ==
    MergeReturned =>
        /\ response.download_name
              = IF Len(files) = 1
                THEN Basename(files[1]) \o <<".", TargetFormat>>
                ELSE <<"merged_document", ".", TargetFormat>>
        /\ pc = "responded" =>
              response.download_name = <<"merged_document", ".", TargetFormat>>

\* C11 witness: a merge started by the Dispatcher in which a single item
\* decoded, and not the first one, was named merged_document.<format>.
C11_Witness ==
    /\ MergeReturned
    /\ pc = "responded"
    /\ Len(Decodable) = 1
    /\ ~files[1].data.decodes
    /\ response.download_name = <<"merged_document", ".", TargetFormat>>

====
